---------------------------- MODULE Spec2Model ----------------------------
(***************************************************************************)
(* A model of sqlite_example.py: load_db() resets and bulk-loads the       *)
(* products table of inventory.db, run_query() reads it back with a LIKE   *)
(* query and an exact-match query, main() runs one after the other.        *)
(*                                                                         *)
(* Text values that the program looks into (descriptions, the LIKE         *)
(* pattern) are sequences of one-character strings; product IDs are only   *)
(* ever compared for equality and stay strings.                            *)
(*                                                                         *)
(* The storage engine is the sqlite3 module in its default (legacy)        *)
(* transaction mode: DROP TABLE and CREATE TABLE run in autocommit, the    *)
(* first INSERT opens a transaction, commit() makes the staged rows        *)
(* durable, and a connection that goes away with a transaction still open  *)
(* loses the staged rows.                                                  *)
(***************************************************************************)
EXTENDS Integers, Sequences, FiniteSets, TLC

\* How many times the program is run against the same inventory.db.
MaxRuns == 2
\* How many rows a products table left by an earlier program may hold.
MaxPrior == 2

-----------------------------------------------------------------------------
(* Shared constants and data: lines 17-28, 81, 91 *)

DBTABLE == "products"

plist ==
  << << "85123A", <<"B","l","u","e"," ","p","a","i","s","l","e","y"," ","t","i","s","s","u","e"," ","b","o","x">>, 8 >>,
     << "82578",  <<"K","i","t","c","h","e","n"," ","m","e","t","a","l"," ","s","i","g","n">>, 2 >>,
     << "22111",  <<"S","m","a","l","l"," ","p","o","p","c","o","r","n"," ","h","o","l","d","e","r">>, 3 >>,
     << "23084",  <<"R","a","b","b","i","t"," ","n","i","g","h","t"," ","l","i","g","h","t">>, 8 >>,
     << "22776",  <<"S","w","a","l","l","o","w","s"," ","g","r","e","e","t","i","n","g"," ","c","a","r","d">>, 4 >> >>

toSearch == <<"s","i","g","n">>

Query2Key == "22776"

-----------------------------------------------------------------------------
(* The storage engine's operations, as the statements of the program use   *)
(* them.  A table is [exists, rows]; a row is a record over the columns    *)
(* of the CREATE TABLE statement.                                          *)

NoTable == [exists |-> FALSE, rows |-> <<>>]

\* Mutant: the DROP TABLE statement is left out.
DropTableKept(t) == t

\* DROP TABLE products (line 47), on a table that exists.
DropTable(t) == NoTable

\* Mutant: DROP TABLE IF EXISTS never complains.
DropFailsNever(t) == FALSE

\* DROP TABLE products (line 47) raises "no such table" when there is none.
DropFails(t) == ~t.exists

\* CREATE TABLE IF NOT EXISTS products (...) (lines 48-49).
CreateTableIfNotExists(t) ==
  IF t.exists THEN t ELSE [exists |-> TRUE, rows |-> <<>>]

\* Mutant: the description is cut to the first 16 characters when stored.
BindRowTruncated(rec) ==
  [productID |-> rec[1], description |-> SubSeq(rec[2], 1, 16), quantity |-> rec[3]]

\* INSERT INTO products (productID, description, quantity) VALUES (?, ?, ?)
\* binds the three elements of one list of plist by position (lines 56-58).
BindRow(rec) ==
  [productID |-> rec[1], description |-> rec[2], quantity |-> rec[3]]

\* Mutant: the column is declared without PRIMARY KEY.
NoPrimaryKey(rows, key) == FALSE

\* productID TEXT PRIMARY KEY (line 48): an insert of a key some row of the
\* table already has is a constraint violation.
PKViolation(rows, key) ==
  \E i \in 1..Len(rows) : rows[i].productID = key

\* Mutant: a failing statement of the batch undoes the whole batch.
StagedAllUndone(staged) == <<>>

\* executemany (lines 56-58) runs the INSERT once per list; a statement that
\* fails undoes only itself, the rows of the statements before it stay staged.
StagedAfterFailure(staged) == staged

\* SELECT * gives each row as the tuple of its columns in table order.
RowTuple(row) == << row.productID, row.description, row.quantity >>

\* Mutant: the search string is wrapped on the right only.
LikePatternPrefix(s) == s \o <<"%">>

\* qkey = ('%'+toSearch+'%', ) (line 82).
LikePattern(s) == <<"%">> \o s \o <<"%">>

UpperCase == <<"A","B","C","D","E","F","G","H","I","J","K","L","M",
               "N","O","P","Q","R","S","T","U","V","W","X","Y","Z">>
LowerCase == <<"a","b","c","d","e","f","g","h","i","j","k","l","m",
               "n","o","p","q","r","s","t","u","v","w","x","y","z">>

\* LIKE compares ASCII letters without regard to case.
Fold(c) ==
  IF \E i \in 1..Len(UpperCase) : UpperCase[i] = c
  THEN LowerCase[CHOOSE i \in 1..Len(UpperCase) : UpperCase[i] = c]
  ELSE c

RECURSIVE LikeMatch(_, _)
\* text LIKE pattern: % matches any run of characters, _ any one character,
\* any other character itself up to ASCII case (line 83).
LikeMatch(pattern, text) ==
  IF pattern = <<>> THEN text = <<>>
  ELSE IF Head(pattern) = "%"
       THEN \/ LikeMatch(Tail(pattern), text)
            \/ text # <<>> /\ LikeMatch(pattern, Tail(text))
       ELSE /\ text # <<>>
            /\ Head(pattern) = "_" \/ Fold(Head(pattern)) = Fold(Head(text))
            /\ LikeMatch(Tail(pattern), Tail(text))

RECURSIVE SelectLike(_, _)
\* SELECT * FROM products WHERE description LIKE ? (line 83), in row order.
SelectLike(rows, pattern) ==
  IF rows = <<>> THEN <<>>
  ELSE (IF LikeMatch(pattern, Head(rows).description)
        THEN << RowTuple(Head(rows)) >> ELSE <<>>)
       \o SelectLike(Tail(rows), pattern)

RECURSIVE SelectAllRows(_, _)
\* Mutant: the WHERE clause is lost.
SelectAllRows(rows, key) ==
  IF rows = <<>> THEN <<>>
  ELSE << RowTuple(Head(rows)) >> \o SelectAllRows(Tail(rows), key)

RECURSIVE SelectByID(_, _)
\* SELECT * FROM products WHERE productID = ? (line 92), in row order.
SelectByID(rows, key) ==
  IF rows = <<>> THEN <<>>
  ELSE (IF Head(rows).productID = key
        THEN << RowTuple(Head(rows)) >> ELSE <<>>)
       \o SelectByID(Tail(rows), key)

\* One printed line: the format string and the values it is applied to.
Line(fmt, args) == [fmt |-> fmt, args |-> args]

RECURSIVE PrintRows(_)
\* for r in recs: three print calls per row (lines 85-88, 94-97).
PrintRows(recs) ==
  IF recs = <<>> THEN <<>>
  ELSE << Line("Product ID: %s", << Head(recs)[1] >>),
          Line("Description: %s", << Head(recs)[2] >>),
          Line("Quantity: %d", << Head(recs)[3] >>) >>
       \o PrintRows(Tail(recs))

\* Mutant: close() is forgotten and the connection stays open.
CloseConnForgotten(c) == c

\* con.close() (lines 64, 98).
CloseConn(c) == "closed"

\* Mutant: main wraps load_db() in a try/except that swallows the error.
UnwindSwallowed(step) ==
  IF step \in {"connect_L", "drop", "create", "insert", "commit"}
  THEN "main_done" ELSE "raised"

\* No statement of the program is inside a try block: an exception raised by
\* any step unwinds load_db or run_query and then main (lines 100-108).
Unwind(step) == "raised"

-----------------------------------------------------------------------------
(* What the program can find and be given *)

\* Rows an earlier program may have left in a products table.
StaleRows ==
  { [productID |-> "22776", quantity |-> 99,
     description |-> <<"O","l","d"," ","g","r","e","e","t","i","n","g"," ","c","a","r","d">>],
    [productID |-> "99999", quantity |-> 1,
     description |-> <<"R","o","a","d"," ","s","i","g","n">>],
    [productID |-> "10002", quantity |-> 0,
     description |-> <<"D","E","S","I","G","N"," ","p","a","d">>] }

Distinct(s) == \A i, j \in 1..Len(s) : i # j => s[i] # s[j]

PriorRowSeqs ==
  UNION { { s \in [1..n -> StaleRows] : Distinct(s) } : n \in 0..MaxPrior }

\* inventory.db before the first run: no file, a file without the table, or
\* a file whose table holds some rows.
PriorStores ==
  { [file |-> FALSE, table |-> NoTable], [file |-> TRUE, table |-> NoTable] }
  \cup { [file |-> TRUE, table |-> [exists |-> TRUE, rows |-> s]] : s \in PriorRowSeqs }

\* plist with the product ID of list j replaced by that of list i.
WithDuplicate(i, j) ==
  [k \in 1..Len(plist) |->
     IF k = j THEN << plist[i][1], plist[k][2], plist[k][3] >> ELSE plist[k]]

\* The lists load_db may be given when plist is edited: plist itself, and
\* plist with one product ID repeated.
RecordLists ==
  {plist} \cup { WithDuplicate(p[1], p[2]) :
                   p \in { q \in (1..Len(plist)) \X (1..Len(plist)) : q[1] < q[2] } }

\* The keys of the exact-match query: the program's, and keys of no list.
QueryKeys == {Query2Key, "99999", "00000", "85123a"}

NoFault == [step |-> "none", row |-> 0]

\* The step of a run at which the environment fails (the file cannot be
\* opened, a disk error), if any.
Faults ==
  {NoFault}
  \cup { [step |-> s, row |-> 0] :
           s \in {"connect_L", "drop", "create", "commit",
                  "connect_Q", "query1", "query2"} }
  \cup { [step |-> "insert", row |-> i] : i \in 1..Len(plist) }

-----------------------------------------------------------------------------
VARIABLES
  pc,         \* the statement the running program is at; "idle" between runs
  run,        \* how many runs have been started
  fault,      \* where the environment fails in this run
  records,    \* the list load_db inserts
  qkey2,      \* the key of the exact-match query
  dbfile,     \* inventory.db exists
  table,      \* the products table as stored in the file
  staged,     \* rows inserted by load_db's open transaction, not committed
  inTxn,      \* load_db's connection has a transaction open
  conL,       \* load_db's connection: none, open, closed, finalized
  conQ,       \* run_query's connection
  idx,        \* the list executemany inserts next
  out,        \* the lines printed to standard output in this run
  log,        \* the storage operations of this run, in order
  err,        \* the exception being propagated, "none" otherwise
  failStep,   \* the step that raised it
  exitStatus, \* -1 until the run ends, then the process's exit status
  recs1,      \* the rows query 1 returned
  recs2,      \* the rows query 2 returned
  committed,  \* the rows load_db's commit made durable in this run
  loadsDone   \* how many runs of load_db completed

vars == << pc, run, fault, records, qkey2, dbfile, table, staged, inTxn, conL,
           conQ, idx, out, log, err, failStep, exitStatus, recs1, recs2,
           committed, loadsDone >>

InitWith(lists, keys) ==
  /\ pc = "idle"
  /\ run = 0
  /\ fault = NoFault
  /\ records \in lists
  /\ qkey2 \in keys
  /\ \E s \in PriorStores : dbfile = s.file /\ table = s.table
  /\ staged = <<>>
  /\ inTxn = FALSE
  /\ conL = "none"
  /\ conQ = "none"
  /\ idx = 1
  /\ out = <<>>
  /\ log = <<>>
  /\ err = "none"
  /\ failStep = "none"
  /\ exitStatus = -1
  /\ recs1 = <<>>
  /\ recs2 = <<>>
  /\ committed = <<>>
  /\ loadsDone = 0

\* The program as written: the fixed list and the fixed key.
Init == InitWith({plist}, {Query2Key})

\* The program with its two literals as inputs.
InitInputs == InitWith(RecordLists, QueryKeys)

-----------------------------------------------------------------------------
(* The steps of one run.  Every step either completes and moves on to the  *)
(* next statement, or raises and unwinds.                                  *)

Raise(step, e) ==
  /\ pc' = Unwind(step)
  /\ err' = e
  /\ failStep' = step

FaultAt(step) == fault.step = step

\* The program is started (line 107-108); main prints its first line
\* (line 101) and calls load_db.
StartRun ==
  /\ pc = "idle"
  /\ run < MaxRuns
  /\ run' = run + 1
  /\ fault' \in Faults
  /\ pc' = "load_connect"
  /\ out' = << Line("Loading the database...", <<>>) >>
  /\ log' = <<>>
  /\ err' = "none"
  /\ failStep' = "none"
  /\ exitStatus' = -1
  /\ conL' = "none"
  /\ conQ' = "none"
  /\ idx' = 1
  /\ recs1' = <<>>
  /\ recs2' = <<>>
  /\ committed' = <<>>
  /\ UNCHANGED << records, qkey2, dbfile, table, staged, inTxn, loadsDone >>

\* load_db, lines 31-35: the item count is printed, the connection opened;
\* connect creates inventory.db when it is not there.
LoadConnect ==
  /\ pc = "load_connect"
  /\ out' = Append(out, Line("Loading the database with %d items.", << Len(records) >>))
  /\ IF FaultAt("connect_L")
     THEN /\ Raise("connect_L", "CantOpen")
          /\ UNCHANGED << conL, dbfile, log >>
     ELSE /\ conL' = "open"
          /\ dbfile' = TRUE
          /\ log' = Append(log, "connect_L")
          /\ pc' = "load_drop"
          /\ UNCHANGED << err, failStep >>
  /\ UNCHANGED << run, fault, records, qkey2, table, staged, inTxn, conQ, idx,
                  exitStatus, recs1, recs2, committed, loadsDone >>

\* load_db, line 47: DROP TABLE, with no check that the table is there.
LoadDrop ==
  /\ pc = "load_drop"
  /\ IF FaultAt("drop")
     THEN /\ Raise("drop", "IOError")
          /\ UNCHANGED << table, log >>
     ELSE IF DropFails(table)
     THEN /\ Raise("drop", "NoSuchTable")
          /\ UNCHANGED << table, log >>
     ELSE /\ table' = DropTable(table)
          /\ log' = Append(log, "drop")
          /\ pc' = "load_create"
          /\ UNCHANGED << err, failStep >>
  /\ UNCHANGED << run, fault, records, qkey2, dbfile, staged, inTxn, conL, conQ,
                  idx, out, exitStatus, recs1, recs2, committed, loadsDone >>

\* load_db, lines 48-49: CREATE TABLE IF NOT EXISTS.  executemany with an
\* empty list runs no statement.
LoadCreate ==
  /\ pc = "load_create"
  /\ IF FaultAt("create")
     THEN /\ Raise("create", "IOError")
          /\ UNCHANGED << table, log >>
     ELSE /\ table' = CreateTableIfNotExists(table)
          /\ log' = Append(log, "create")
          /\ pc' = IF Len(records) = 0 THEN "load_commit" ELSE "load_insert"
          /\ UNCHANGED << err, failStep >>
  /\ UNCHANGED << run, fault, records, qkey2, dbfile, staged, inTxn, conL, conQ,
                  idx, out, exitStatus, recs1, recs2, committed, loadsDone >>

\* The rows load_db's connection sees: the stored ones and its own staged ones.
LoaderView == table.rows \o staged

\* load_db, lines 56-58: executemany inserts list idx of the record list.  The
\* first INSERT opens the transaction.
LoadInsert ==
  /\ pc = "load_insert"
  /\ idx <= Len(records)
  /\ inTxn' = TRUE
  /\ LET row == BindRow(records[idx]) IN
     IF fault = [step |-> "insert", row |-> idx]
     THEN /\ Raise("insert", "IOError")
          /\ staged' = StagedAfterFailure(staged)
          /\ UNCHANGED << idx, log >>
     ELSE IF PKViolation(LoaderView, row.productID)
     THEN /\ Raise("insert", "IntegrityError")
          /\ staged' = StagedAfterFailure(staged)
          /\ UNCHANGED << idx, log >>
     ELSE /\ staged' = Append(staged, row)
          /\ idx' = idx + 1
          /\ log' = Append(log, "insert")
          /\ pc' = IF idx = Len(records) THEN "load_commit" ELSE "load_insert"
          /\ UNCHANGED << err, failStep >>
  /\ UNCHANGED << run, fault, records, qkey2, dbfile, table, conL, conQ, out,
                  exitStatus, recs1, recs2, committed, loadsDone >>

\* load_db, line 61: commit makes the staged rows durable.
LoadCommit ==
  /\ pc = "load_commit"
  /\ IF FaultAt("commit")
     THEN /\ Raise("commit", "IOError")
          /\ UNCHANGED << table, staged, inTxn, log, committed >>
     ELSE /\ table' = [table EXCEPT !.rows = @ \o staged]
          /\ committed' = staged
          /\ staged' = <<>>
          /\ inTxn' = FALSE
          /\ log' = Append(log, "commit")
          /\ pc' = "load_close"
          /\ UNCHANGED << err, failStep >>
  /\ UNCHANGED << run, fault, records, qkey2, dbfile, conL, conQ, idx, out,
                  exitStatus, recs1, recs2, loadsDone >>

\* load_db, line 64: close, and load_db returns to main.  close() does not
\* commit: rows still staged would be lost.
LoadClose ==
  /\ pc = "load_close"
  /\ conL' = CloseConn(conL)
  /\ staged' = <<>>
  /\ inTxn' = FALSE
  /\ log' = Append(log, "close_L")
  /\ loadsDone' = loadsDone + 1
  /\ pc' = "main_done"
  /\ UNCHANGED << run, fault, records, qkey2, dbfile, table, conQ,
                  idx, out, err, failStep, exitStatus, recs1, recs2, committed >>

\* main, lines 103-105: two lines are printed and run_query is called.
MainDone ==
  /\ pc = "main_done"
  /\ out' = out \o << Line("Done.", <<>>), Line("Querying:", <<>>) >>
  /\ pc' = "query_connect"
  /\ UNCHANGED << run, fault, records, qkey2, dbfile, table, staged, inTxn, conL,
                  conQ, idx, log, err, failStep, exitStatus, recs1, recs2,
                  committed, loadsDone >>

\* run_query, lines 68-69: a connection of its own.
QueryConnect ==
  /\ pc = "query_connect"
  /\ IF FaultAt("connect_Q")
     THEN /\ Raise("connect_Q", "CantOpen")
          /\ UNCHANGED << conQ, dbfile, log >>
     ELSE /\ conQ' = "open"
          /\ dbfile' = TRUE
          /\ log' = Append(log, "connect_Q")
          /\ pc' = "query1"
          /\ UNCHANGED << err, failStep >>
  /\ UNCHANGED << run, fault, records, qkey2, table, staged, inTxn, conL, idx,
                  out, exitStatus, recs1, recs2, committed, loadsDone >>

\* run_query, lines 81-88: the LIKE query over the stored rows, each row
\* printed as three lines.
Query1 ==
  /\ pc = "query1"
  /\ IF FaultAt("query1")
     THEN /\ Raise("query1", "IOError")
          /\ UNCHANGED << recs1, out, log >>
     ELSE IF ~table.exists
     THEN /\ Raise("query1", "NoSuchTable")
          /\ UNCHANGED << recs1, out, log >>
     ELSE /\ recs1' = SelectLike(table.rows, LikePattern(toSearch))
          /\ out' = out \o << Line("Records that match query 1: ", <<>>) >>
                        \o PrintRows(recs1')
          /\ log' = Append(log, "query1")
          /\ pc' = "query2"
          /\ UNCHANGED << err, failStep >>
  /\ UNCHANGED << run, fault, records, qkey2, dbfile, table, staged, inTxn, conL,
                  conQ, idx, exitStatus, recs2, committed, loadsDone >>

\* run_query, lines 91-97: the exact-match query.
Query2 ==
  /\ pc = "query2"
  /\ IF FaultAt("query2")
     THEN /\ Raise("query2", "IOError")
          /\ UNCHANGED << recs2, out, log >>
     ELSE IF ~table.exists
     THEN /\ Raise("query2", "NoSuchTable")
          /\ UNCHANGED << recs2, out, log >>
     ELSE /\ recs2' = SelectByID(table.rows, qkey2)
          /\ out' = out \o << Line("Records that match query 2: ", <<>>) >>
                        \o PrintRows(recs2')
          /\ log' = Append(log, "query2")
          /\ pc' = "query_close"
          /\ UNCHANGED << err, failStep >>
  /\ UNCHANGED << run, fault, records, qkey2, dbfile, table, staged, inTxn, conL,
                  conQ, idx, exitStatus, recs1, committed, loadsDone >>

\* run_query, line 98: close, and run_query and main return.
QueryClose ==
  /\ pc = "query_close"
  /\ conQ' = CloseConn(conQ)
  /\ log' = Append(log, "close_Q")
  /\ pc' = "returned"
  /\ UNCHANGED << run, fault, records, qkey2, dbfile, table, staged, inTxn, conL,
                  idx, out, err, failStep, exitStatus, recs1, recs2, committed,
                  loadsDone >>

\* What becomes of a connection when the interpreter goes away.
Finalized(c) == IF c = "open" THEN "finalized" ELSE c

\* main has returned: the process ends with status 0.
ExitOk ==
  /\ pc = "returned"
  /\ exitStatus' = 0
  /\ conL' = Finalized(conL)
  /\ conQ' = Finalized(conQ)
  /\ staged' = <<>>
  /\ inTxn' = FALSE
  /\ pc' = "idle"
  /\ UNCHANGED << run, fault, records, qkey2, dbfile, table, idx, out, log, err,
                  failStep, recs1, recs2, committed, loadsDone >>

\* An exception has left main: the interpreter reports it and the process
\* ends with status 1.  A connection still open goes away with the process,
\* and the rows of its open transaction with it.
ExitError ==
  /\ pc = "raised"
  /\ exitStatus' = 1
  /\ log' = Append(log, "traceback")
  /\ conL' = Finalized(conL)
  /\ conQ' = Finalized(conQ)
  /\ staged' = <<>>
  /\ inTxn' = FALSE
  /\ pc' = "idle"
  /\ UNCHANGED << run, fault, records, qkey2, dbfile, table, idx, out, err,
                  failStep, recs1, recs2, committed, loadsDone >>

Next ==
  \/ StartRun
  \/ LoadConnect
  \/ LoadDrop
  \/ LoadCreate
  \/ LoadInsert
  \/ LoadCommit
  \/ LoadClose
  \/ MainDone
  \/ QueryConnect
  \/ Query1
  \/ Query2
  \/ QueryClose
  \/ ExitOk
  \/ ExitError

Spec == Init /\ [][Next]_vars

SpecInputs == InitInputs /\ [][Next]_vars

-----------------------------------------------------------------------------
(* Vocabulary of the properties *)

InLog(e) == \E i \in 1..Len(log) : log[i] = e

Printed(fmt) == \E i \in 1..Len(out) : out[i].fmt = fmt

LoaderSteps == {"connect_L", "drop", "create", "insert", "commit"}

\* load_db of the current (or last) run ran to its last statement.
LoaderCompleted == InLog("close_L")

\* load_db of the current (or last) run was left by an exception.
LoaderFailed == failStep \in LoaderSteps

\* The stored rows as SELECT * would give them.
StoredTuples == [i \in 1..Len(table.rows) |-> RowTuple(table.rows[i])]

SampleIDs == { plist[i][1] : i \in 1..Len(plist) }

\* text contains sub as a substring, character for character.
Contains(text, sub) ==
  \E i \in 1..(Len(text) - Len(sub) + 1) : SubSeq(text, i, i + Len(sub) - 1) = sub

ContainsSearch(rec) == Contains(rec[2], toSearch)

-----------------------------------------------------------------------------
(* C1: once load_db has completed, whatever the products table held       *)
(* before, the table holds exactly the five lists of plist, in order and   *)
(* with no other row; this is so after the first run and after a second.   *)
C1_LoaderLeavesExactlySample ==
  LoaderCompleted => table.exists /\ StoredTuples = plist

C1_Witness_SecondLoadCompleted ==
  /\ loadsDone = 2
  /\ pc = "main_done"
  /\ Len(table.rows) = 5

(* C2: once load_db has completed, the exact-match query for the product   *)
(* ID of any list of plist gives exactly one row, equal to that list; the  *)
(* program's query 2 gives the single row 22776, Swallows greeting card, 4.*)
C2_RoundTrip ==
  LoaderCompleted =>
    /\ \A i \in 1..Len(plist) : SelectByID(table.rows, plist[i][1]) = << plist[i] >>
    /\ InLog("query2") =>
         recs2 = << << "22776",
                       <<"S","w","a","l","l","o","w","s"," ","g","r","e","e","t","i","n","g"," ","c","a","r","d">>,
                       4 >> >>

C2_Witness_Query2Answered ==
  /\ pc = "query_close"
  /\ Len(recs2) = 1
  /\ recs2[1][3] = 4

(* C3: once query 1 has run, its rows are exactly the lists of plist whose *)
(* description contains "sign": the one row of product 82578.              *)
C3_SubstringMatch ==
  InLog("query1") =>
    /\ recs1 = SelectSeq(plist, ContainsSearch)
    /\ Len(recs1) = 1
    /\ recs1[1][1] = "82578"
    /\ recs1[1] = plist[2]

C3_Witness_Query1Answered ==
  /\ pc = "query2"
  /\ Len(recs1) = 1
  /\ recs1[1][1] = "82578"

\* The key of the list executemany is about to insert is already in the table.
InsertOfPresentKey ==
  /\ pc = "load_insert"
  /\ \E i \in 1..Len(LoaderView) : LoaderView[i].productID = records[idx][1]

\* No two rows of the table, stored or staged, have the same productID.
UniqueProductIDs ==
  /\ \A i, j \in 1..Len(LoaderView) :
       i # j => LoaderView[i].productID # LoaderView[j].productID
  /\ \A i, j \in 1..Len(table.rows) :
       i # j => table.rows[i].productID # table.rows[j].productID

(* C4: the product IDs of plist are pairwise distinct; the table never     *)
(* holds two rows with the same productID; and the insert of a productID   *)
(* the table already holds raises, adds no row, and raises the constraint  *)
(* error unless the environment failed that very statement.                *)
C4_ProductIDUnique ==
  /\ [](/\ \A i, j \in 1..Len(plist) : i # j => plist[i][1] # plist[j][1]
        /\ UniqueProductIDs)
  /\ [][InsertOfPresentKey =>
          /\ pc' = "raised"
          /\ failStep' = "insert"
          /\ err' \in {"IntegrityError", "IOError"}
          /\ fault # [step |-> "insert", row |-> idx] => err' = "IntegrityError"
          /\ LoaderView' = LoaderView
          /\ table' = table]_vars

C4_Witness_DuplicateRejected ==
  /\ err = "IntegrityError"
  /\ failStep = "insert"
  /\ idx > 1
  /\ exitStatus = 1

C6_ErrorsPropagate ==
  /\ LoaderFailed =>
       /\ pc \in {"raised", "idle"}
       /\ err # "none"
       /\ exitStatus = (IF pc = "idle" THEN 1 ELSE -1)
       /\ ~Printed("Done.")
       /\ conQ = "none"
       /\ ~InLog("connect_Q") /\ ~InLog("query1") /\ ~InLog("query2")
  /\ err # "none" => pc \in {"raised", "idle"} /\ exitStatus # 0
  /\ exitStatus = 0 =>
       /\ InLog("close_L") /\ InLog("close_Q")
       /\ InLog("query1") /\ InLog("query2")
       /\ err = "none"

C6_Witness_LoaderFailedAndExited ==
  /\ LoaderFailed
  /\ failStep = "commit"
  /\ pc = "idle"
  /\ exitStatus = 1

(* C7: whenever load_db has ended, by returning or by an exception, after  *)
(* it opened its connection, that connection is closed; and when run_query *)
(* has returned its connection is closed.                                  *)
C7_LoaderAlwaysReleases ==
  /\ LoaderCompleted => conL \in {"closed"}
  /\ pc = "raised" /\ LoaderFailed /\ InLog("connect_L") => conL = "closed"
  /\ pc = "returned" => conQ = "closed"

(* C8: once load_db has completed, the exact-match query for a productID   *)
(* that no list of plist has gives no row and raises nothing, and the      *)
(* stored rows are still the ones load_db committed.                       *)
C8_AbsentKeyGivesNoRow ==
  InLog("query2") /\ qkey2 \notin SampleIDs =>
    /\ recs2 = <<>>
    /\ err = "none"
    /\ pc \in {"query_close", "returned", "idle"}
    /\ table.exists
    /\ table.rows = committed
    /\ StoredTuples = plist

C8_Witness_AbsentKeyQueried ==
  /\ InLog("query2")
  /\ qkey2 = "99999"
  /\ recs2 = <<>>
  /\ exitStatus = 0

(* C9: at most one connection is open at a time; load_db commits before it *)
(* closes, and run_query connects only after both, on a connection of its  *)
(* own, so that every row it reads is one load_db committed in this run.   *)
C9_ConnectionsScopedAndOrdered ==
  /\ ~(conL = "open" /\ conQ = "open")
  /\ \A i, j \in 1..Len(log) :
       /\ log[i] = "commit" /\ log[j] = "close_L" => i < j
       /\ log[i] \in {"commit", "close_L"} /\ log[j] = "connect_Q" => i < j
  /\ InLog("connect_Q") =>
       /\ InLog("commit") /\ InLog("close_L")
       /\ conL = "closed"
       /\ staged = <<>> /\ ~inTxn
  /\ \A i \in 1..Len(recs1) : \E k \in 1..Len(committed) : recs1[i] = RowTuple(committed[k])
  /\ \A i \in 1..Len(recs2) : \E k \in 1..Len(committed) : recs2[i] = RowTuple(committed[k])

C9_Witness_QueryOnOwnConnection ==
  /\ conQ = "open"
  /\ conL = "closed"
  /\ pc = "query_close"
  /\ Len(recs1) = 1 /\ Len(recs2) = 1

\* The first n lists of the record list as rows.
StagedPrefix(n) ==
  [i \in 1..n |-> [productID |-> records[i][1], description |-> records[i][2],
                   quantity |-> records[i][3]]]

(* C10: when an INSERT of the batch fails, load_db neither commits nor     *)
(* rolls back: while the exception unwinds, the table holds exactly the    *)
(* rows of the lists before the failing one, and at no later point of the  *)
(* run does it hold a row that is not one of them, nor the whole list.     *)
C10_NoPartialWriteRecovery ==
  failStep = "insert" =>
    /\ ~InLog("commit") /\ committed = <<>>
    /\ idx <= Len(records)
    /\ pc = "raised" => inTxn /\ table.exists /\ LoaderView = StagedPrefix(idx - 1)
    /\ ~table.exists \/
         \A i \in 1..Len(LoaderView) : \E k \in 1..(idx - 1) : LoaderView[i] = StagedPrefix(idx - 1)[k]
    /\ Len(LoaderView) < Len(records)

C10_Witness_BatchFailedPartway ==
  /\ failStep = "insert"
  /\ pc = "raised"
  /\ err = "IntegrityError"
  /\ Len(staged) >= 2

=============================================================================
